---- MODULE Spec2Model ----
(***************************************************************************)
(* Model of the firmware self-update flow of src/src/main.rs:              *)
(*   ota()          baseline fetch, 30 s polling loop, version gate        *)
(*   check_update() manifest fetch: status check, single read, parse       *)
(*   ota_update()   image transfer into the esp_ota session, commit        *)
(***************************************************************************)
EXTENDS Integers, Sequences, FiniteSets, TLC

\* ------------------------------------------------------------------ bounds
MaxNum == 1          \* major, minor and patch range over 0..MaxNum
MaxPre == 1          \* pre-release identifiers 1..MaxPre; 0 is "no pre-release"
MaxBuild == 1        \* build metadata 1..MaxBuild; 0 is "no build metadata"
MaxFetches == 3      \* cap on the number of check_update calls of one run
MaxImageLen == 10000 \* longest firmware image served
ShortRead == 1808    \* size of a read that does not fill the buffer

\* ------------------------------------------------------- program constants
BufLen == 4096       \* let mut buf = [0_u8; 4096]
ManifestBufLen == 256 \* let mut buf = [0_u8; 256]
StatusLo == 200      \* 200..=299
StatusHi == 299

Min(a, b) == IF a < b THEN a ELSE b

\* ---------------------------------------------------------------- versions
Nums == 0..MaxNum
Pres == 0..MaxPre
Builds == 0..MaxBuild

\* semver::Version { major, minor, patch, pre, build }
Versions == [major : Nums, minor : Nums, patch : Nums, pre : Pres, build : Builds]

NoVersion == [major |-> 0, minor |-> 0, patch |-> 0, pre |-> 0, build |-> 0]

\* Ord of semver::Prerelease: the empty pre-release (a release) is greater
\* than every pre-release; pre-release identifiers compare numerically.
PreLT(p, q) == IF p = 0 THEN FALSE ELSE (q = 0 \/ p < q)

\* Ord of semver::BuildMetadata: empty sorts lowest, identifiers numerically.
BuildLT(b, c) == b < c

\* Mutant: non-strict gate (>= instead of >).
VersionGE(a, b) ==
    \/ a = b
    \/ a.major > b.major
    \/ a.major = b.major /\ a.minor > b.minor
    \/ a.major = b.major /\ a.minor = b.minor /\ a.patch > b.patch
    \/ a.major = b.major /\ a.minor = b.minor /\ a.patch = b.patch
         /\ PreLT(b.pre, a.pre)
    \/ a.major = b.major /\ a.minor = b.minor /\ a.patch = b.patch
         /\ a.pre = b.pre /\ BuildLT(b.build, a.build)

\* update.version > version: the derived Ord of semver::Version compares
\* major, minor, patch, pre, build in field order.
VersionGT(a, b) ==
    \/ a.major > b.major
    \/ a.major = b.major /\ a.minor > b.minor
    \/ a.major = b.major /\ a.minor = b.minor /\ a.patch > b.patch
    \/ a.major = b.major /\ a.minor = b.minor /\ a.patch = b.patch
         /\ PreLT(b.pre, a.pre)
    \/ a.major = b.major /\ a.minor = b.minor /\ a.patch = b.patch
         /\ a.pre = b.pre /\ BuildLT(b.build, a.build)

\* ------------------------------------------------------- manifest documents
Links == {"l1", "l2"}

\* The version string of a document: a well-formed semantic version, or not.
VersionStrings ==
    [valid : {TRUE}, major : Nums, minor : Nums, patch : Nums, pre : Pres, build : Builds]
    \cup {[valid |-> FALSE, major |-> 0, minor |-> 0, patch |-> 0, pre |-> 0, build |-> 0]}

SmallDoc == 64
BigDoc == 300

SampleVersionString ==
    [valid |-> TRUE, major |-> MaxNum, minor |-> 0, patch |-> 0, pre |-> 0, build |-> 0]

\* A document served at the manifest url: JSON or not, its fields, its length.
Docs ==
    [json : {TRUE}, version : VersionStrings, link : Links, size : {SmallDoc}]
    \cup [json : {TRUE}, version : {SampleVersionString}, link : {"l1"}, size : {BigDoc}]
    \cup [json : {FALSE}, version : {SampleVersionString}, link : {"l1"}, size : {SmallDoc}]

SampleDoc == [json |-> TRUE, version |-> SampleVersionString, link |-> "l2", size |-> SmallDoc]

Statuses == {199, 200, 299, 300, 301}

\* What the network gives one check_update call.
\*   net    : "ok", or the call of connect / get / submit that fails
\*   status : response.status()
\*   rd     : the single Read::read: "err", "eof" (0 bytes), "short" (part of
\*            the document), "full" (as much of the document as fits)
FetchInputs ==
    [net : {"connect", "get", "submit"}, status : {200}, rd : {"full"}, doc : {SampleDoc}]
    \cup [net : {"ok"}, status : Statuses, rd : {"err", "eof", "short", "full"}, doc : {SampleDoc}]
    \cup [net : {"ok"}, status : {200}, rd : {"full"}, doc : Docs]

\* ------------------------------------------------------------------ results
Err(kind, code) == [kind |-> kind, code |-> code]
NoErr == Err("none", 0)

NoUpdate == [version |-> NoVersion, link |-> "unset"]

\* ------------------------------------------------------------- check_update
\* Mutant: the success range reaches one status too far (200..=300).
Is2xxWide(status) == status >= StatusLo /\ status <= StatusHi + 1

\* match status { 200..=299 => ..., _ => bail!(...) }
Is2xx(status) == status >= StatusLo /\ status <= StatusHi

\* Number of bytes the single Read::read puts in the 256-byte buffer.
ReadSize(in) ==
    CASE in.rd = "eof"   -> 0
      [] in.rd = "short" -> in.doc.size \div 2
      [] OTHER           -> Min(in.doc.size, ManifestBufLen)

\* Mutant: the zero-size check is missing.
IsZeroSizedNever(size) == FALSE

\* if size == 0 { bail!("Zero sized message"); }
IsZeroSized(size) == size = 0

\* serde_json::from_slice(&buf[..size]): succeeds when the slice holds a whole
\* JSON document with the two string fields.
FromSliceOk(in, size) == in.doc.json /\ size = in.doc.size

\* Update::new: Version::parse(&json.version).unwrap()
VersionParse(s) ==
    [major |-> s.major, minor |-> s.minor, patch |-> s.patch, pre |-> s.pre, build |-> s.build]

Outcome(kind, err, upd, reads, parses) ==
    [kind |-> kind, err |-> err, update |-> upd, reads |-> reads, parses |-> parses]

\* fn check_update(url) -> Result<Update>; kind is "ok", "err" or "panic".
CheckUpdate(in) ==
    IF in.net # "ok"
    THEN Outcome("err", Err("Network", 0), NoUpdate, 0, 0)
    ELSE IF ~Is2xx(in.status)
    THEN Outcome("err", Err("UnexpectedStatus", in.status), NoUpdate, 0, 0)
    ELSE IF in.rd = "err"
    THEN Outcome("err", Err("Io", 0), NoUpdate, 1, 0)
    ELSE IF IsZeroSized(ReadSize(in))
    THEN Outcome("err", Err("EmptyBody", 0), NoUpdate, 1, 0)
    ELSE IF ~FromSliceOk(in, ReadSize(in))
    THEN Outcome("err", Err("Parse", 0), NoUpdate, 1, 1)
    ELSE IF ~in.doc.version.valid
    THEN Outcome("panic", NoErr, NoUpdate, 1, 1)
    ELSE Outcome("ok", NoErr,
                 [version |-> VersionParse(in.doc.version), link |-> in.doc.link], 1, 1)

\* -------------------------------------------------------- byte bookkeeping
\* Bytes are tracked as runs: "img" bytes off..off+len-1 of the image served,
\* or "zero" bytes of the freshly initialised buffer.
Seg(src, off, len) == [src |-> src, off |-> off, len |-> len]

RECURSIVE DropBytes(_, _)
DropBytes(s, n) ==
    IF n = 0 \/ s = <<>> THEN s
    ELSE IF Head(s).len <= n THEN DropBytes(Tail(s), n - Head(s).len)
    ELSE <<Seg(Head(s).src,
               IF Head(s).src = "zero" THEN 0 ELSE Head(s).off + n,
               Head(s).len - n)>> \o Tail(s)

RECURSIVE Merge(_)
Merge(s) ==
    IF Len(s) < 2 THEN s
    ELSE IF s[1].src = s[2].src /\ (s[1].src = "zero" \/ s[1].off + s[1].len = s[2].off)
    THEN Merge(<<Seg(s[1].src, s[1].off, s[1].len + s[2].len)>> \o SubSeq(s, 3, Len(s)))
    ELSE <<s[1]>> \o Merge(Tail(s))

RECURSIVE TotalLen(_)
TotalLen(s) == IF s = <<>> THEN 0 ELSE Head(s).len + TotalLen(Tail(s))

\* let mut buf = [0_u8; 4096];
ZeroBuf == <<Seg("zero", 0, BufLen)>>

\* Read::read(&mut reader, &mut buf) returning n > 0: the first n bytes of buf
\* are overwritten with the next n bytes of the stream, the rest is kept.
ReadInto(b, p, n) == Merge(<<Seg("img", p, n)>> \o DropBytes(b, n))

\* The whole image of length l, as runs.
WholeImage(l) == IF l = 0 THEN <<>> ELSE <<Seg("img", 0, l)>>

\* ------------------------------------------------------------------- state
VARIABLES
    pc,        \* position of the update flow (ota / ota_update)
    update,    \* ota: the outer `update`, result of the first check_update
    version,   \* ota: `version`, moved out of the outer update
    polled,    \* ota: the `update` declared inside the loop body
    url,       \* ota_update: the argument `url`
    newerLink, \* link of the polled manifest that made the loop break
    seenOther, \* some poll returned a version neither equal to nor below the baseline
    fetch,     \* what the last check_update call saw and did
    nfetch,    \* number of check_update calls so far
    ret,       \* the error ota returned, NoErr while it has not returned
    status,    \* ota_update: `status` of the image response
    image,     \* length of the image served at url
    pos,       \* bytes of the image delivered by the stream so far
    size,      \* ota_update: `size` of the last read
    buf,       \* ota_update: `buf`
    sink,      \* bytes written to the OTA partition
    reads,     \* bytes returned by each non-empty read, in order
    writes,    \* bytes passed to each successful write, in order
    ops,       \* calls made on the firmware storage, in order
    failed,    \* the call of ota_update that failed, "none" if none did
    boot       \* boot partition: "old" or "new"

vars == <<pc, update, version, polled, url, newerLink, seenOther, fetch, nfetch, ret,
          status, image, pos, size, buf, sink, reads, writes, ops, failed, boot>>

otaVars == <<update, version, polled, newerLink, seenOther, fetch, nfetch>>
xferVars == <<url, status, image, pos, size, buf, sink, reads, writes, ops, failed, boot>>

NoFetch == [net |-> "none", status |-> 0, rd |-> "none", size |-> 0,
            kind |-> "none", reads |-> 0, parses |-> 0]

\* Record of one check_update call: the response it got and what it did.
FetchRecord(in, r) ==
    [net |-> in.net, status |-> in.status, rd |-> in.rd, size |-> ReadSize(in),
     kind |-> r.kind, reads |-> r.reads, parses |-> r.parses]

Op(name, ok) == [op |-> name, ok |-> ok]

ImageLens == {0, BufLen, MaxImageLen}

\* Statuses of the image response; the upper end of the success range is
\* exercised by the manifest fetch.
ImageStatuses == Statuses \ {299}

Init ==
    /\ pc = "ota"
    /\ update = NoUpdate
    /\ version = NoVersion
    /\ polled = NoUpdate
    /\ url = "unset"
    /\ newerLink = "unset"
    /\ seenOther = FALSE
    /\ fetch = NoFetch
    /\ nfetch = 0
    /\ ret = NoErr
    /\ status = 0
    /\ image = 0
    /\ pos = 0
    /\ size = 0
    /\ buf = <<>>
    /\ sink = <<>>
    /\ reads = <<>>
    /\ writes = <<>>
    /\ ops = <<>>
    /\ failed = "none"
    /\ boot = "old"

\* Semantic-version precedence: major, minor, patch numerically, then a
\* pre-release below the release; build metadata does not take part.
PrecLT(a, b) ==
    \/ a.major < b.major
    \/ a.major = b.major /\ a.minor < b.minor
    \/ a.major = b.major /\ a.minor = b.minor /\ a.patch < b.patch
    \/ a.major = b.major /\ a.minor = b.minor /\ a.patch = b.patch
         /\ a.pre # b.pre /\ a.pre # 0 /\ (b.pre = 0 \/ a.pre < b.pre)

\* ---------------------------------------------------------------------- ota
\* let update = check_update(..)?; let version = update.version;
Baseline ==
    /\ pc = "ota"
    /\ \E in \in FetchInputs :
         LET r == CheckUpdate(in) IN
           /\ fetch' = FetchRecord(in, r)
           /\ nfetch' = nfetch + 1
           /\ update' = r.update
           /\ version' = r.update.version
           /\ ret' = r.err
           /\ pc' = CASE r.kind = "ok"  -> "sleep"
                      [] r.kind = "err" -> "returned"
                      [] OTHER          -> "panicked"
    /\ UNCHANGED <<polled, newerLink, seenOther>>
    /\ UNCHANGED xferVars

\* thread::sleep(Duration::from_secs(30));
Sleep ==
    /\ pc = "sleep"
    /\ pc' = "poll"
    /\ UNCHANGED <<ret>>
    /\ UNCHANGED otaVars
    /\ UNCHANGED xferVars

\* let update = check_update(..)?;   (inside the loop)
Poll ==
    /\ pc = "poll"
    /\ nfetch < MaxFetches
    /\ \E in \in FetchInputs :
         LET r == CheckUpdate(in) IN
           /\ fetch' = FetchRecord(in, r)
           /\ nfetch' = nfetch + 1
           /\ polled' = r.update
           /\ ret' = r.err
           /\ seenOther' = (seenOther \/
                (r.kind = "ok" /\ r.update.version # version
                    /\ ~PrecLT(r.update.version, version)))
           /\ pc' = CASE r.kind = "ok"  -> "compare"
                      [] r.kind = "err" -> "returned"
                      [] OTHER          -> "panicked"
    /\ UNCHANGED <<update, version, newerLink>>
    /\ UNCHANGED xferVars

\* Mutant: the loop is left after the first poll, whatever the comparison.
CompareAlwaysBreak ==
    /\ pc = "compare"
    /\ pc' = "call"
    /\ newerLink' = polled.link
    /\ polled' = NoUpdate
    /\ UNCHANGED <<update, version, seenOther, fetch, nfetch, ret>>
    /\ UNCHANGED xferVars

\* Mutant: a poll that is not newer becomes the new comparison floor.
CompareRebase ==
    /\ pc = "compare"
    /\ IF VersionGT(polled.version, version)
       THEN /\ pc' = "call"
            /\ newerLink' = polled.link
            /\ UNCHANGED version
       ELSE /\ pc' = "sleep"
            /\ version' = polled.version
            /\ UNCHANGED newerLink
    /\ polled' = NoUpdate
    /\ UNCHANGED <<update, seenOther, fetch, nfetch, ret>>
    /\ UNCHANGED xferVars

\* Mutant: the loop never breaks.
CompareNeverBreak ==
    /\ pc = "compare"
    /\ pc' = "sleep"
    /\ polled' = NoUpdate
    /\ UNCHANGED <<update, version, newerLink, seenOther, fetch, nfetch, ret>>
    /\ UNCHANGED xferVars

\* if update.version > version { break; }   the inner update ends with the body
Compare ==
    /\ pc = "compare"
    /\ IF VersionGT(polled.version, version)
       THEN /\ pc' = "call"
            /\ newerLink' = polled.link
       ELSE /\ pc' = "sleep"
            /\ UNCHANGED newerLink
    /\ polled' = NoUpdate
    /\ UNCHANGED <<update, version, seenOther, fetch, nfetch, ret>>
    /\ UNCHANGED xferVars

\* ota_update(update.link)?;   after the loop `update` is the outer binding
OtaUpdateCall ==
    /\ pc = "call"
    /\ url' = update.link
    /\ pc' = "connect"
    /\ UNCHANGED <<ret, status, image, pos, size, buf, sink, reads, writes, ops, failed, boot>>
    /\ UNCHANGED otaVars

\* --------------------------------------------------------------- ota_update
\* Mutant: the session is begun before the client is created.
ConnectAfterBegin ==
    /\ pc = "connect"
    /\ ops' = Append(ops, Op("begin", TRUE))
    /\ \/ /\ failed' = "connect"
          /\ ret' = Err("Network", 0)
          /\ pc' = "returned"
          /\ UNCHANGED <<status, image>>
       \/ \E st \in Statuses \ {299}, len \in {0, BufLen, MaxImageLen} :
            /\ status' = st
            /\ image' = len
            /\ pc' = "match"
            /\ UNCHANGED <<failed, ret>>
    /\ UNCHANGED <<url, pos, size, buf, sink, reads, writes, boot>>
    /\ UNCHANGED otaVars

\* let mut client = connect()?; let request = client.get(url)?;
\* let response = request.submit()?; let status = response.status();
Connect ==
    /\ pc = "connect"
    /\ \/ /\ failed' = "connect"
          /\ ret' = Err("Network", 0)
          /\ pc' = "returned"
          /\ UNCHANGED <<status, image>>
       \/ \E st \in ImageStatuses, len \in ImageLens :
            /\ status' = st
            /\ image' = len
            /\ pc' = "begin"
            /\ UNCHANGED <<failed, ret>>
    /\ UNCHANGED <<url, pos, size, buf, sink, reads, writes, ops, boot>>
    /\ UNCHANGED otaVars

\* let mut ota = esp_ota::OtaUpdate::begin()?;
Begin ==
    /\ pc = "begin"
    /\ \E ok \in BOOLEAN :
         /\ ops' = Append(ops, Op("begin", ok))
         /\ IF ok
            THEN pc' = "match" /\ UNCHANGED <<failed, ret>>
            ELSE pc' = "returned" /\ failed' = "begin" /\ ret' = Err("Begin", 0)
    /\ UNCHANGED <<url, status, image, pos, size, buf, sink, reads, writes, boot>>
    /\ UNCHANGED otaVars

\* match status { 200..=299 => { let mut buf = [0_u8; 4096]; .. }
\*                _ => bail!("Unexpected response code: {}", status) }
Match ==
    /\ pc = "match"
    /\ IF Is2xx(status)
       THEN /\ buf' = ZeroBuf
            /\ pc' = "read"
            /\ UNCHANGED <<failed, ret>>
       ELSE /\ ret' = Err("UnexpectedStatus", status)
            /\ failed' = "status"
            /\ pc' = "returned"
            /\ UNCHANGED buf
    /\ UNCHANGED <<url, status, image, pos, size, sink, reads, writes, ops, boot>>
    /\ UNCHANGED otaVars

\* Mutant: a failed read is taken for the end of the stream.
AfterReadErrAsEof(res) ==
    IF res = -1 THEN "finalize" ELSE IF res = 0 THEN "finalize" ELSE "write"

\* Mutant: the chunk is written before the size is tested.
AfterReadWriteFirst(res) == IF res = -1 THEN "returned" ELSE "write"

\* let size = Read::read(..)?; if size == 0 { break; }
\* res is -1 for Err, else the size read.
AfterRead(res) ==
    IF res = -1 THEN "returned" ELSE IF res = 0 THEN "finalize" ELSE "write"

\* The results one read of the image stream can have: an error, zero bytes
\* (the end of the stream, or a connection that ends early), or up to
\* BufLen of the bytes that remain.
ReadResults ==
    {-1, 0} \cup {Min(n, image - pos) : n \in {m \in {ShortRead, BufLen} : image > pos}}

Read ==
    /\ pc = "read"
    /\ \E res \in ReadResults :
         /\ pc' = AfterRead(res)
         /\ IF res = -1
            THEN /\ failed' = "read"
                 /\ ret' = Err("Io", 0)
                 /\ UNCHANGED <<size, buf, pos, reads>>
            ELSE /\ size' = res
                 /\ UNCHANGED <<failed, ret>>
                 /\ IF res = 0
                    THEN UNCHANGED <<buf, pos, reads>>
                    ELSE /\ buf' = ReadInto(buf, pos, res)
                         /\ pos' = pos + res
                         /\ reads' = Append(reads, <<Seg("img", pos, res)>>)
    /\ UNCHANGED <<url, status, image, sink, writes, ops, boot>>
    /\ UNCHANGED otaVars

\* The slice handed to write: ota.write(&buf) passes the whole buffer.
WriteArg(b, n) == b

\* Mutant: a session is begun again for every chunk.
AfterWriteBeginAgain(ok) == IF ok THEN "begin" ELSE "returned"

\* ota.write(&buf)?;
AfterWrite(ok) == IF ok THEN "read" ELSE "returned"

\* ota.write(&buf)?; info!("Wrote {} bytes", size);
Write ==
    /\ pc = "write"
    /\ \E ok \in BOOLEAN :
         /\ ops' = Append(ops, Op("write", ok))
         /\ pc' = AfterWrite(ok)
         /\ IF ok
            THEN /\ sink' = Merge(sink \o WriteArg(buf, size))
                 /\ writes' = Append(writes, WriteArg(buf, size))
                 /\ UNCHANGED <<failed, ret>>
            ELSE /\ failed' = "write"
                 /\ ret' = Err("Io", 0)
                 /\ UNCHANGED <<sink, writes>>
    /\ UNCHANGED <<url, status, image, pos, size, buf, reads, boot>>
    /\ UNCHANGED otaVars

\* Mutant: the result of finalize is not checked.
AfterFinalizeUnchecked(ok) == "set_boot"

\* Mutant: the boot partition is not set before the restart.
AfterFinalizeSkipBoot(ok) == IF ok THEN "restart" ELSE "returned"

\* let mut completed_ota = ota.finalize()?;
AfterFinalize(ok) == IF ok THEN "set_boot" ELSE "returned"

Finalize ==
    /\ pc = "finalize"
    /\ \E ok \in BOOLEAN :
         /\ ops' = Append(ops, Op("finalize", ok))
         /\ pc' = AfterFinalize(ok)
         /\ IF ok
            THEN UNCHANGED <<failed, ret>>
            ELSE failed' = "finalize" /\ ret' = Err("Finalize", 0)
    /\ UNCHANGED <<url, status, image, pos, size, buf, sink, reads, writes, boot>>
    /\ UNCHANGED otaVars

\* completed_ota.set_as_boot_partition()?;
SetBoot ==
    /\ pc = "set_boot"
    /\ \E ok \in BOOLEAN :
         /\ ops' = Append(ops, Op("set_boot", ok))
         /\ IF ok
            THEN /\ boot' = "new"
                 /\ pc' = "restart"
                 /\ UNCHANGED <<failed, ret>>
            ELSE /\ failed' = "set_boot"
                 /\ ret' = Err("SetBoot", 0)
                 /\ pc' = "returned"
                 /\ UNCHANGED boot
    /\ UNCHANGED <<url, status, image, pos, size, buf, sink, reads, writes>>
    /\ UNCHANGED otaVars

\* Mutant: restart comes back and ota_update ends without an error.
RestartReturns ==
    /\ pc = "restart"
    /\ ops' = Append(ops, Op("restart", TRUE))
    /\ pc' = "returned"
    /\ UNCHANGED <<url, status, image, pos, size, buf, sink, reads, writes, failed, boot, ret>>
    /\ UNCHANGED otaVars

\* completed_ota.restart();   does not return
Restart ==
    /\ pc = "restart"
    /\ ops' = Append(ops, Op("restart", TRUE))
    /\ pc' = "restarted"
    /\ UNCHANGED <<url, status, image, pos, size, buf, sink, reads, writes, failed, boot, ret>>
    /\ UNCHANGED otaVars

Next ==
    \/ Baseline
    \/ Sleep
    \/ Poll
    \/ Compare
    \/ OtaUpdateCall
    \/ Connect
    \/ Begin
    \/ Match
    \/ Read
    \/ Write
    \/ Finalize
    \/ SetBoot
    \/ Restart

Spec == Init /\ [][Next]_vars

\* The update flow is one sequential thread whose blocking calls return: it
\* keeps taking steps while it has one to take.
LiveSpec == Init /\ [][Next]_vars /\ WF_vars(Next)

TypeOK ==
    /\ pc \in {"ota", "sleep", "poll", "compare", "call", "connect", "begin", "match",
               "read", "write", "finalize", "set_boot", "restart",
               "returned", "panicked", "restarted"}
    /\ nfetch \in 0..MaxFetches
    /\ boot \in {"old", "new"}
    /\ pos <= image
    /\ TotalLen(buf) \in {0, BufLen}

\* ------------------------------------------------------------- properties
HasOp(name) == \E i \in 1..Len(ops) : ops[i].op = name

InRange(st) == st >= 200 /\ st <= 299

\* C1: the image transfer is invoked with the link of the freshly fetched,
\* newer manifest, and never with the baseline manifest's link when the two
\* links differ.
C1_TransferUsesNewerLink ==
    url # "unset" =>
        /\ url = newerLink
        /\ (update.link # newerLink => url # update.link)

\* C2: every write to the sink carries exactly the bytes the corresponding
\* non-empty read returned (same length, same content, stream order), so a
\* read of fewer than 4096 bytes produces a write of that shorter length.
C2_WritesCarryReadBytes ==
    \A i \in 1..Len(writes) :
        /\ writes[i] = reads[i]
        /\ TotalLen(writes[i]) = TotalLen(reads[i])

\* C3: set-as-boot-target is invoked only right after a finalize that returned
\* success; when finalize fails the transfer returns an error and neither
\* set-as-boot-target nor restart is invoked.
C3_BootOnlyAfterFinalize ==
    /\ \A j \in 1..Len(ops) :
         ops[j].op = "set_boot" => (j > 1 /\ ops[j - 1] = Op("finalize", TRUE))
    /\ Op("finalize", FALSE) \in {ops[i] : i \in 1..Len(ops)} =>
         /\ pc = "returned"
         /\ ret = Err("Finalize", 0)
         /\ ~HasOp("set_boot")
         /\ ~HasOp("restart")
         /\ boot = "old"

C3_Witness == boot = "new" /\ HasOp("set_boot") /\ Len(writes) > 0

\* C4: whenever set-as-boot-target has been invoked and has switched the boot
\* target, the data written to the sink is the complete image served at the
\* link, not a strict prefix of it.
C4_NeverBootsTruncated ==
    (HasOp("set_boot") /\ boot = "new") => sink = WholeImage(image)

\* C5: when a read of the image stream or a write to the sink fails, the
\* transfer returns an error and finalize, set-as-boot-target and restart are
\* not invoked.
C5_IoErrorAborts ==
    failed \in {"read", "write"} =>
        /\ pc = "returned"
        /\ ret = Err("Io", 0)
        /\ ~HasOp("finalize")
        /\ ~HasOp("set_boot")
        /\ ~HasOp("restart")
        /\ boot = "old"

C5_Witness == failed = "read" /\ Len(writes) = 2 /\ pc = "returned"

\* C6: a transfer that ends by a zero-byte read and meets no error invokes
\* finalize, set-as-boot-target and restart exactly once each, in that order,
\* and no write follows finalize.
C6_CommitSequence ==
    /\ \A i \in 1..Len(ops) : \A j \in 1..Len(ops) :
         (i < j /\ ops[i].op = "finalize") => ops[j].op # "write"
    /\ pc = "restarted" =>
         /\ Len(ops) >= 4
         /\ SubSeq(ops, Len(ops) - 2, Len(ops)) =
              <<Op("finalize", TRUE), Op("set_boot", TRUE), Op("restart", TRUE)>>
         /\ \A i \in 1..(Len(ops) - 3) : ops[i].op \in {"begin", "write"}
         /\ size = 0
         /\ failed = "none"
    /\ (pc \in {"finalize", "set_boot", "restart"} /\ size = 0 /\ failed = "none") =>
         /\ ~HasOp("restart")
         /\ HasOp("set_boot") <=> pc = "restart"
         /\ HasOp("finalize") <=> pc \in {"set_boot", "restart"}

C6_Witness == pc = "restarted" /\ Len(writes) = 3 /\ pos = image

C8_GateIsPrecedence ==
    [][pc = "compare" => ((pc' = "call") <=> PrecLT(version, polled.version))]_vars

\* C9: a manifest fetch whose status is outside 200..299 returns an
\* unexpected-status error carrying the code, with no body read and no parse;
\* a status inside 200..299 is always accepted for reading.
C9_StatusGate ==
    fetch.net = "ok" =>
        IF InRange(fetch.status)
        THEN fetch.reads = 1
        ELSE /\ fetch.kind = "err"
             /\ ret = Err("UnexpectedStatus", fetch.status)
             /\ pc = "returned"
             /\ fetch.reads = 0
             /\ fetch.parses = 0

C9_Witness == fetch.net = "ok" /\ fetch.status = 301 /\ pc = "returned" /\ nfetch > 1

\* C10: a manifest fetch with a 2xx status whose single read returns zero
\* bytes returns an empty-body error and makes no parse attempt.
C10_EmptyBody ==
    (fetch.net = "ok" /\ InRange(fetch.status) /\ fetch.rd # "err" /\ fetch.size = 0) =>
        /\ fetch.kind = "err"
        /\ ret = Err("EmptyBody", 0)
        /\ fetch.reads = 1
        /\ fetch.parses = 0
        /\ pc = "returned"

C10_Witness ==
    fetch.net = "ok" /\ fetch.status = 200 /\ fetch.rd = "eof" /\ pc = "returned"

\* C11: a manifest whose body is well-formed but whose version is not a valid
\* semantic version makes the fetch return a parse error to the caller, like
\* a malformed body; a failed parse never aborts the flow.
C11_ParseFailureIsAnError ==
    (fetch.parses = 1 /\ fetch.kind # "ok") =>
        /\ fetch.kind = "err"
        /\ pc = "returned"
        /\ ret = Err("Parse", 0)

\* C12: any failure of a manifest fetch, the first or a polling one, ends the
\* run: ota returns that error, fetches no more and begins no transfer.
C12_FetchFailureIsReturned ==
    fetch.kind \notin {"none", "ok"} =>
        /\ pc = "returned"
        /\ ret # NoErr
        /\ url = "unset"
        /\ ops = <<>>

\* C13: the status of the image response is validated before a session is
\* opened: with a status outside 200..299 the transfer returns an
\* unexpected-status error and begin is never invoked on the sink.
C13_StatusBeforeBegin ==
    /\ HasOp("begin") => InRange(status)
    /\ failed = "status" => (ret = Err("UnexpectedStatus", status) /\ ops = <<>>)

XferPcs == {"call", "connect", "begin", "match", "read", "write", "finalize",
            "set_boot", "restart", "restarted"}

\* C14: every comparison is preceded by the successful manifest fetch that
\* produced its candidate, the transfer starts only after a comparison that
\* evaluated to newer, and no manifest fetch occurs once the transfer started.
C14_FetchCompareTransferOrder ==
    [][/\ (pc' = "compare" /\ pc # "compare") =>
            (pc = "poll" /\ nfetch' = nfetch + 1 /\ fetch'.kind = "ok"
                /\ polled'.link \in Links)
       /\ (pc' = "call" /\ pc # "call") =>
            (pc = "compare" /\ VersionGT(polled.version, version))
       /\ (pc \in XferPcs \/ url # "unset") =>
            (nfetch' = nfetch /\ fetch' = fetch /\ pc' \notin {"ota", "sleep", "poll", "compare"})
      ]_vars

C14_Witness == pc = "read" /\ nfetch = MaxFetches /\ url # "unset"

\* C15: the baseline version is the version of the first successful fetch and
\* never changes afterwards, whatever the polls return.
C15_BaselineFixed ==
    [][/\ pc # "ota" => version' = version
       /\ (pc = "ota" /\ pc' = "sleep") => (version' = update'.version /\ nfetch' = 1)
      ]_vars

C15_Witness ==
    pc = "compare" /\ nfetch = MaxFetches /\ version = update.version
        /\ polled.version # version

\* C16: begin is invoked at most once in a run, so at most one transfer
\* session is open on the sink.
C16_OneSession ==
    Cardinality({i \in 1..Len(ops) : ops[i].op = "begin"}) <= 1

C16_Witness == pc = "restarted" /\ HasOp("begin") /\ Len(writes) = 3

\* C17: the update flow never returns success: whenever ota has returned, it
\* returned an error.
C17_ReturnIsError ==
    pc = "returned" => ret # NoErr

C17_Witness == pc = "returned" /\ failed = "set_boot" /\ ret = Err("SetBoot", 0)

\* C19: a 2xx image response whose first read returns zero bytes is a
\* successful transfer: nothing is written to the sink, yet finalize,
\* set-as-boot-target and restart follow, committing an empty image.
C19_EmptyImageCommitted ==
    /\ reads = <<>> => (~HasOp("write") /\ sink = <<>>)
    /\ (pc = "finalize" /\ reads = <<>>) =>
         (size = 0 /\ InRange(status) /\ ops = <<Op("begin", TRUE)>>)
    /\ (pc = "restarted" /\ reads = <<>>) =>
         /\ ops = <<Op("begin", TRUE), Op("finalize", TRUE),
                    Op("set_boot", TRUE), Op("restart", TRUE)>>
         /\ boot = "new"

C19_Witness ==
    pc = "restarted" /\ reads = <<>> /\ sink = <<>> /\ boot = "new" /\ InRange(status)

\* C20: when creating the client, building the image request or submitting
\* it fails, the transfer returns an error and the sink is untouched: no
\* begin, write, finalize or set-as-boot-target.
C20_ConnectFailureLeavesSink ==
    failed = "connect" =>
        /\ pc = "returned"
        /\ ret = Err("Network", 0)
        /\ ops = <<>>
        /\ sink = <<>>
        /\ boot = "old"

C20_Witness == failed = "connect" /\ pc = "returned" /\ url \in Links

\* C18: when no fetch and no call of the transfer fails (every manifest fetch
\* succeeds, the image response is 2xx, the stream ends with a zero-byte read
\* and no sink operation fails) and some poll returns a version newer than
\* the baseline, the run eventually reaches restart.
C18_EventuallyRestarts ==
    ([](pc \notin {"returned", "panicked"})
        /\ <>(pc = "compare" /\ PrecLT(version, polled.version)))
    => <>(pc = "restarted")

C18_Witness ==
    pc = "restarted" /\ seenOther /\ nfetch = MaxFetches /\ Len(writes) = 3 /\ pos = image

====
